---- MODULE Spec2Model ----
(***************************************************************************)
(* The signup/login service of src/index.py: two MongoDB collections       *)
(* (user_profiles, user_authentications) written and read by the Flask     *)
(* handlers signup() and login(), which run on concurrent handler threads. *)
(* Every access to a collection or to the clock is one atomic step; the    *)
(* code between two accesses touches only the thread's locals and is       *)
(* folded into the step that follows it.                                   *)
(***************************************************************************)
EXTENDS Integers, Sequences, FiniteSets, TLC

\* ------------------------------------------------------------------ bounds
MaxSignups == 2     \* signups admitted past validation (caps the collections)
MaxScenarioSignups == 3     \* the same cap where every signup is the scenario's

\* ------------------------------------------------------- program constants
MinSuffix == 1000   \* random.randint(1000, 9999)
MaxSuffix == 9999

\* ---------------------------------------------------------- Python values
\* JSON values that are not strings are tagged strings, so that every field
\* has one TLA+ type.
PyNone == "<None>"          \* a key absent from the request: dict.get gives None
PyInt == "<int 123>"        \* a JSON number where a string is expected

IsStr(v) == v \notin {PyNone, PyInt}

\* bool(v) of a request field: None and "" are falsy
Truthy(v) == v # PyNone /\ v # ""

\* the handler threads of the server (app.run serves requests on threads)
Threads == {"t1", "t2"}

\* ------------------------------------------------------------ request data
\* The signup of the specification's scenario, and the values each field of
\* a request takes besides.  captcha_answer is what the user typed,
\* client_captcha the answer the page expects.
ScenarioRequest ==
    [name |-> "Asha", user_category |-> "User", user_type |-> "Individual",
     location |-> "Pune", eco_index |-> "B", password |-> "secretpw",
     captcha_answer |-> "7", client_captcha |-> "7"]

FieldValues ==
    [name |-> {"", PyNone},
     user_category |-> {"Admin", "Guest", "", PyNone},
     user_type |-> {"Robot"},
     location |-> {},
     eco_index |-> {"Z", "", PyNone},
     password |-> {"wrong", PyInt, "", PyNone},
     captcha_answer |-> {"8", "x", PyNone},
     client_captcha |-> {}]

\* request.get_json(): the scenario's request with at most one field changed
SignupRequests ==
    {ScenarioRequest} \cup
    {[ScenarioRequest EXCEPT ![f] = v] : <<f, v>> \in
        UNION {{<<g, w>> : w \in FieldValues[g]} : g \in DOMAIN FieldValues}}

NoRequest ==
    [name |-> PyNone, user_category |-> PyNone, user_type |-> PyNone,
     location |-> PyNone, eco_index |-> PyNone, password |-> PyNone,
     captcha_answer |-> PyNone, client_captcha |-> PyNone]

\* ------------------------------------------------------------- identities
\* random.randint(a, b), sampled at the two ends of its range
RandInt(a, b) == {a, b}

\* f"U{n}"
FormatUserId(n) == "U" \o ToString(n)

LoginIdentifiers ==
    {PyNone, ""} \cup {FormatUserId(n) : n \in RandInt(MinSuffix, MaxSuffix)}
LoginPasswords == {PyNone, "", "secretpw", "wrong", PyInt}

\* ----------------------------------------------------------------- bcrypt
\* bcrypt.gensalt(): 16 random bytes, here a salt no stored hash carries
gensalt(stored) == Len(stored) + 1

\* bcrypt.hashpw(password, salt): the stored text carries the salt; the
\* digest is a function of salt and password that differs for any two
\* passwords of the model (all shorter than bcrypt's 72 bytes).
Hashpw(password, salt) == [salt |-> salt, digest |-> <<salt, password>>]

\* password.encode('utf-8') raises AttributeError unless password is a str
CanHash(password) == IsStr(password)

\* hash_password, with the salt that gensalt drew
hash_password(password, salt) == Hashpw(password, salt)

\* verify_password: bcrypt.checkpw re-hashes with the salt of the stored hash
verify_password(stored_hash, provided_password) ==
    Hashpw(provided_password, stored_hash.salt) = stored_hash

\* ----------------------------------------------------------------- stores
\* collection.find_one({"user_id": uid}): the first match in insertion order
NotFound == [user_id |-> PyNone]

\* (mutant) the filter is dropped: the first document of the collection
find_one_unfiltered(collection, uid) ==
    IF Len(collection) = 0 THEN NotFound ELSE collection[1]

find_one(collection, uid) ==
    LET hits == {k \in 1..Len(collection) : collection[k].user_id = uid}
    IN  IF hits = {} THEN NotFound
        ELSE collection[CHOOSE k \in hits : \A j \in hits : k <= j]

\* (mutant) replace_one(..., upsert=True): a stored document of the same
\* user_id is overwritten
insert_one_upsert(collection, doc) ==
    IF \E k \in 1..Len(collection) : collection[k].user_id = doc.user_id
    THEN [k \in 1..Len(collection) |->
            IF collection[k].user_id = doc.user_id THEN doc ELSE collection[k]]
    ELSE Append(collection, doc)

\* collection.insert_one(doc): no unique index is declared on user_id
insert_one(collection, doc) == Append(collection, doc)

\* ------------------------------------------------------------- responses
NoResponse == [status |-> "none", code |-> 0, message |-> ""]

ErrorResponse(msg) == [status |-> "error", code |-> 400, message |-> msg]

\* an exception no handler catches: Flask answers 500
Unhandled(exc) == [status |-> "exception", code |-> 500, message |-> exc]

VARIABLES
    user_profiles,          \* db.user_profiles, in insertion order
    user_authentications,   \* db.user_authentications, in insertion order
    clock,                  \* datetime.datetime.now(), as the number of readings so far
    pc,                     \* per thread: where its handler stands
    data,                   \* per thread: request.get_json() of a running signup
    user_id,                \* per thread: signup's local user_id
    created_on,             \* per thread: signup's local created_on
    resp,                   \* per thread: the response it is sending
    returned,               \* history: <<user_id, password>> of every signup answered with success
    json_takes_oid          \* whether the app's JSON provider serialises an ObjectId

vars == <<user_profiles, user_authentications, clock, pc, data, user_id,
          created_on, resp, returned, json_takes_oid>>

\* ------------------------------------------------------------ signup locals
\* (mutant) user_type is taken from the request whatever the category
DeriveUserType_FromRequest(d) == d.user_type

\* lines 45-46: user_type and location come from the request only for "User"
DeriveUserType(d) == IF d.user_category = "User" THEN d.user_type ELSE ""

DeriveLocation(d) == IF d.user_category = "User" THEN d.location ELSE ""

\* lines 53-57: int(captcha_answer) != int(client_captcha)
\* int(s) of a one-digit text; any other text raises ValueError
Digits == [n \in 0..9 |-> ToString(n)]

IsDecimal(s) == \E n \in 0..9 : Digits[n] = s

ParseInt(s) == CHOOSE n \in 0..9 : Digits[n] = s

CaptchaCheck(d) ==
    IF d.captcha_answer = PyNone THEN Unhandled("TypeError")
    ELSE IF ~IsDecimal(d.captcha_answer) THEN ErrorResponse("Invalid captcha input")
    ELSE IF d.client_captcha = PyNone THEN Unhandled("TypeError")
    ELSE IF ~IsDecimal(d.client_captcha) THEN ErrorResponse("Invalid captcha input")
    ELSE IF ParseInt(d.captcha_answer) # ParseInt(d.client_captcha)
         THEN ErrorResponse("Captcha verification failed")
    ELSE NoResponse

\* (mutant) password is left out of the list
RequiredPresent_NoPassword(d) ==
    Truthy(d.name) /\ Truthy(d.user_category) /\ Truthy(d.eco_index)

\* line 60: all([name, user_category, eco_index, password])
RequiredPresent(d) ==
    Truthy(d.name) /\ Truthy(d.user_category) /\ Truthy(d.eco_index) /\ Truthy(d.password)

\* lines 52-61: the response that ends the handler early, NoResponse if none does
EarlyResponse(d) ==
    LET captcha == CaptchaCheck(d)
    IN  IF captcha # NoResponse THEN captcha
        ELSE IF ~RequiredPresent(d) THEN ErrorResponse("Missing required fields")
        ELSE NoResponse

\* EarlyResponse, tabulated once over the requests of the model
Validate == [d \in SignupRequests |-> EarlyResponse(d)]

\* lines 68-77
UserProfile(d, uid, now) ==
    [user_id |-> uid,
     name |-> d.name,
     user_category |-> d.user_category,
     user_type |-> DeriveUserType(d),
     location |-> DeriveLocation(d),
     created_on |-> now,
     eco_index |-> d.eco_index,
     linked_infrastructures |-> <<>>]

\* lines 83-90
UserAuth(uid, hashed_pw, now) ==
    [user_id |-> uid,
     password |-> [current_hash |-> hashed_pw, updates |-> <<>>, last_updated |-> now]]

SuccessResponse(profile) ==
    [status |-> "success", code |-> 200, message |-> "Welcome, " \o profile.name \o "!",
     user_profile |-> profile]

\* signups past validation whose profile is written or still to be written
Admitted ==
    Len(user_profiles) + Cardinality({t \in Threads : pc[t] \in {"generate", "insert_profile"}})

\* ------------------------------------------------------------------- Init
Init ==
    /\ user_profiles = <<>>
    /\ user_authentications = <<>>
    /\ clock = 0
    /\ pc = [t \in Threads |-> "idle"]
    /\ data = [t \in Threads |-> NoRequest]
    /\ user_id = [t \in Threads |-> ""]
    /\ created_on = [t \in Threads |-> 0]
    /\ resp = [t \in Threads |-> NoResponse]
    /\ returned = {}
    /\ json_takes_oid \in BOOLEAN

\* ---------------------------------------------------------------- actions
\* signup(), lines 41-61: read the request, check the captcha and the
\* required fields; answer at once when a check fails.  No more than cap
\* signups are admitted past the checks.
SignupUpTo(cap, t, d) ==
    /\ pc[t] = "idle"
    /\ IF Validate[d] # NoResponse
       THEN /\ pc' = [pc EXCEPT ![t] = "signup_return"]
            /\ resp' = [resp EXCEPT ![t] = Validate[d]]
            /\ UNCHANGED data
       ELSE /\ Admitted < cap
            /\ pc' = [pc EXCEPT ![t] = "generate"]
            /\ data' = [data EXCEPT ![t] = d]
            /\ UNCHANGED resp
    /\ UNCHANGED <<user_profiles, user_authentications, clock, user_id,
                   created_on, returned, json_takes_oid>>

Signup(t, d) == SignupUpTo(MaxSignups, t, d)

\* generate_user_id(), lines 17-21: one turn of the loop; only a free
\* identity ends it
GenerateUserId(t) ==
    /\ pc[t] = "generate"
    /\ \E n \in RandInt(MinSuffix, MaxSuffix) :
         IF find_one(user_profiles, FormatUserId(n)) = NotFound
         THEN /\ user_id' = [user_id EXCEPT ![t] = FormatUserId(n)]
              /\ pc' = [pc EXCEPT ![t] = "insert_profile"]
         ELSE UNCHANGED <<user_id, pc>>
    /\ UNCHANGED <<user_profiles, user_authentications, clock, data, created_on,
                   resp, returned, json_takes_oid>>

\* lines 65-79: read the clock, build the profile and insert it.  Nothing
\* but the thread's locals is touched between the clock and the insert, and
\* no two readings of the clock are equal.
InsertProfile(t) ==
    /\ pc[t] = "insert_profile"
    /\ created_on' = [created_on EXCEPT ![t] = clock]
    /\ clock' = clock + 1
    /\ user_profiles' =
         insert_one(user_profiles, UserProfile(data[t], user_id[t], clock))
    /\ pc' = [pc EXCEPT ![t] = "insert_auth"]
    /\ UNCHANGED <<user_authentications, data, user_id, resp, returned, json_takes_oid>>

\* lines 81-94: hash the password, insert the credential document, answer.
\* insert_one has by then added an ObjectId "_id" to the user_profile dict,
\* which jsonify hands to the app's JSON provider: where the provider takes
\* an ObjectId the answer is the success of line 94, where it does not (the
\* default provider) the handler ends in TypeError after both writes.
InsertAuth(t) ==
    /\ pc[t] = "insert_auth"
    /\ IF ~CanHash(data[t].password)
       THEN /\ resp' = [resp EXCEPT ![t] = Unhandled("AttributeError")]
            /\ UNCHANGED <<user_authentications, returned>>
       ELSE /\ user_authentications' =
                 insert_one(user_authentications,
                            UserAuth(user_id[t],
                                     hash_password(data[t].password,
                                                   gensalt(user_authentications)),
                                     created_on[t]))
            /\ IF json_takes_oid
               THEN /\ resp' = [resp EXCEPT ![t] =
                         SuccessResponse(UserProfile(data[t], user_id[t], created_on[t]))]
                    /\ returned' = returned \cup {<<user_id[t], data[t].password>>}
               ELSE /\ resp' = [resp EXCEPT ![t] = Unhandled("TypeError")]
                    /\ UNCHANGED returned
    /\ pc' = [pc EXCEPT ![t] = "signup_return"]
    /\ data' = [data EXCEPT ![t] = NoRequest]
    /\ user_id' = [user_id EXCEPT ![t] = ""]
    /\ created_on' = [created_on EXCEPT ![t] = 0]
    /\ UNCHANGED <<user_profiles, clock, json_takes_oid>>

\* login(), lines 98-114: the response
LoginResponse(identifier, password) ==
    IF ~Truthy(identifier) \/ ~Truthy(password)
    THEN ErrorResponse("Missing required fields")
    ELSE IF find_one(user_authentications, identifier) = NotFound
    THEN ErrorResponse("User does not exist")
    ELSE IF ~CanHash(password)
    THEN Unhandled("AttributeError")
    ELSE IF verify_password(find_one(user_authentications, identifier).password.current_hash,
                            password)
    THEN [status |-> "success", code |-> 200, message |-> "Login successful"]
    ELSE ErrorResponse("Invalid password")

\* login(), lines 97-114: one read of user_authentications
Login(t, identifier, password) ==
    /\ pc[t] = "idle"
    /\ resp' = [resp EXCEPT ![t] = LoginResponse(identifier, password)]
    /\ pc' = [pc EXCEPT ![t] = "login_return"]
    /\ UNCHANGED <<user_profiles, user_authentications, clock, data, user_id,
                   created_on, returned, json_takes_oid>>

\* the response has gone out; the thread takes the next request
Return(t) ==
    /\ pc[t] \in {"signup_return", "login_return"}
    /\ pc' = [pc EXCEPT ![t] = "idle"]
    /\ resp' = [resp EXCEPT ![t] = NoResponse]
    /\ UNCHANGED <<user_profiles, user_authentications, clock, data, user_id,
                   created_on, returned, json_takes_oid>>

Next ==
    \/ \E t \in Threads : \E d \in SignupRequests : Signup(t, d)
    \/ \E t \in Threads : GenerateUserId(t)
    \/ \E t \in Threads : InsertProfile(t)
    \/ \E t \in Threads : InsertAuth(t)
    \/ \E t \in Threads : \E i \in LoginIdentifiers : \E p \in LoginPasswords :
         Login(t, i, p)
    \/ \E t \in Threads : Return(t)

Spec == Init /\ [][Next]_vars

\* The same handlers where every signup is the scenario's request, so that
\* more signups than identities of the sample fit the bounds.
ScenarioSignup(t) == SignupUpTo(MaxScenarioSignups, t, ScenarioRequest)

ScenarioNext ==
    \/ \E t \in Threads : ScenarioSignup(t)
    \/ \E t \in Threads : GenerateUserId(t)
    \/ \E t \in Threads : InsertProfile(t)
    \/ \E t \in Threads : InsertAuth(t)
    \/ \E t \in Threads : \E i \in LoginIdentifiers : \E p \in LoginPasswords :
         Login(t, i, p)
    \/ \E t \in Threads : Return(t)

\* every handler thread that has work keeps being scheduled
FairSpec ==
    /\ Init
    /\ [][ScenarioNext]_vars
    /\ \A t \in Threads :
          WF_vars(GenerateUserId(t) \/ InsertProfile(t) \/ InsertAuth(t) \/ Return(t))

\* ----------------------------------------------------------------- claims
ProfileIds == {user_profiles[k].user_id : k \in 1..Len(user_profiles)}

AuthIds == {user_authentications[k].user_id : k \in 1..Len(user_authentications)}

IsSignupSuccess(r) == r.status = "success" /\ "user_profile" \in DOMAIN r

\* C1: every identity a successful Signup returns is "U" followed by a number
\* in 1000..9999, and no two profiles of the profile store carry the same
\* identity, whatever the interleaving of the signups.
C1_IdentitiesWellFormedAndUnique ==
    /\ \A t \in Threads :
         (pc[t] = "signup_return" /\ IsSignupSuccess(resp[t]))
            => resp[t].user_profile.user_id \in {"U" \o ToString(n) : n \in 1000..9999}
    /\ \A j, k \in 1..Len(user_profiles) :
         j # k => user_profiles[j].user_id # user_profiles[k].user_id

\* C2: in every state, an identity has a profile exactly when it has a
\* credential record: no state shows a profile whose credential is missing.
C2_ProfileAndCredentialTogether == ProfileIds = AuthIds

\* C3: every credential record refers to an identity that has a profile, and
\* no identity has more than one credential record.
C3_OneCredentialPerProfile ==
    /\ AuthIds \subseteq ProfileIds
    /\ \A j, k \in 1..Len(user_authentications) :
         j # k => user_authentications[j].user_id # user_authentications[k].user_id

\* C4: a Signup call (its captcha passed) in which name, category, ecoIndex
\* or password is absent or empty answers "Missing required fields" and
\* leaves both stores as they were.
Absent(v) == v = PyNone \/ v = ""

C4_MissingFieldNoWrite ==
    [][\A t \in Threads :
         (pc[t] = "idle" /\ pc'[t] \in {"signup_return", "generate"}) =>
         \A d \in SignupRequests :
         ( /\ d.captcha_answer = d.client_captcha
           /\ \/ Absent(d.name) \/ Absent(d.user_category)
              \/ Absent(d.eco_index) \/ Absent(d.password)
           /\ Signup(t, d) )
         => /\ pc'[t] = "signup_return"
            /\ resp'[t].status = "error"
            /\ resp'[t].message = "Missing required fields"
            /\ user_profiles' = user_profiles
            /\ user_authentications' = user_authentications]_vars

\* C4 happens: a signup has been answered "Missing required fields" while
\* the stores hold documents
C4_Witness ==
    \E t \in Threads :
        /\ pc[t] = "signup_return"
        /\ resp[t].message = "Missing required fields"
        /\ Len(user_profiles) > 0
        /\ Len(user_authentications) > 0

C6_UnknownUser ==
    [][\A t \in Threads :
         (pc[t] = "idle" /\ pc'[t] = "login_return") =>
         \A i \in LoginIdentifiers : \A q \in LoginPasswords :
         ( /\ ~Absent(i) /\ ~Absent(q)
           /\ \A k \in 1..Len(user_authentications) : user_authentications[k].user_id # i
           /\ Login(t, i, q) )
         => /\ resp'[t].status = "error"
            /\ resp'[t].message = "User does not exist"]_vars

\* C6 happens: a login was answered "User does not exist" while the
\* credential store holds a record (of another identity)
C6_Witness ==
    \E t \in Threads :
        /\ pc[t] = "login_return"
        /\ resp[t].message = "User does not exist"
        /\ Len(user_authentications) > 0

\* C7: every persisted profile of category "Admin" has empty type and
\* location, whatever the request supplied; a profile takes type and
\* location from its request only when the category is "User".
C7_AdminTypeAndLocationEmpty ==
    /\ [](\A k \in 1..Len(user_profiles) :
            user_profiles[k].user_category = "Admin"
               => user_profiles[k].user_type = "" /\ user_profiles[k].location = "")
    /\ [][\A t \in Threads :
            (pc[t] = "insert_profile" /\ InsertProfile(t)) =>
              LET doc == user_profiles'[Len(user_profiles')]
              IN  IF data[t].user_category = "User"
                  THEN doc.user_type = data[t].user_type /\ doc.location = data[t].location
                  ELSE doc.user_type = "" /\ doc.location = ""]_vars

\* C7 happens: an "Admin" profile is stored (its request supplied a type
\* and a location) beside a "User" profile
C7_Witness ==
    /\ \E k \in 1..Len(user_profiles) : user_profiles[k].user_category = "Admin"
    /\ \E k \in 1..Len(user_profiles) :
          user_profiles[k].user_category = "User" /\ user_profiles[k].user_type # ""
    /\ \A d \in SignupRequests :
          d.user_category = "Admin" => d.user_type # "" /\ d.location # ""

\* C8: every Signup call eventually returns: the allocation of an identity
\* gives up after a bounded number of attempts when no identity is free.
C8_SignupReturns ==
    \A t \in Threads : (pc[t] = "generate") ~> (pc[t] = "signup_return")

\* C9: no profile with an unrecognised category, type (for "User") or
\* ecoIndex is ever persisted: Signup rejects such a request.
C9_OnlyRecognisedEnums ==
    \A k \in 1..Len(user_profiles) :
        /\ user_profiles[k].user_category \in {"Admin", "User"}
        /\ user_profiles[k].user_category = "User"
              => user_profiles[k].user_type \in {"Individual", "Organisation"}
        /\ user_profiles[k].eco_index \in {"A", "B", "C", "D", "E", "F", "G"}

\* C10: both stores are append-only: a document stays, with the same field
\* values, in every later state; Login changes neither store; a document
\* Signup adds starts with linkedInfrastructures and the update history empty.
C10_AppendOnly ==
    [][/\ Len(user_profiles') >= Len(user_profiles)
       /\ \A k \in 1..Len(user_profiles) : user_profiles'[k] = user_profiles[k]
       /\ \A k \in (Len(user_profiles) + 1)..Len(user_profiles') :
             user_profiles'[k].linked_infrastructures = <<>>
       /\ Len(user_authentications') >= Len(user_authentications)
       /\ \A k \in 1..Len(user_authentications) :
             user_authentications'[k] = user_authentications[k]
       /\ \A k \in (Len(user_authentications) + 1)..Len(user_authentications') :
             user_authentications'[k].password.updates = <<>>
       /\ \A t \in Threads :
             (pc[t] = "idle" /\ pc'[t] = "login_return")
                => /\ user_profiles' = user_profiles
                   /\ user_authentications' = user_authentications]_vars

\* C10 happens: two signups drew the same identity, so the second insert
\* met a stored document of its key, and a login has been answered
C10_Witness ==
    /\ \E j, k \in 1..Len(user_profiles) :
          j # k /\ user_profiles[j].user_id = user_profiles[k].user_id
    /\ \E j, k \in 1..Len(user_authentications) :
          j # k /\ user_authentications[j].user_id = user_authentications[k].user_id
    /\ \E t \in Threads : pc[t] = "login_return"

====
